---- MODULE Spec2Model ----
\* A model of the two developer scripts of the repository:
\*   scripts/generate-maps.py  builds a char32_t[256] forward table per legacy
\*                             8-bit encoding (codec-backed or mapping-file-backed);
\*   scripts/ans_to_bxesc.py   converts .ans files to wrapped b'\xHH' text files.
\* Strings that the code inspects character by character (codec names, mapping
\* file lines, the escaped literal) are sequences of one-character strings.
EXTENDS Integers, Sequences, FiniteSets, TLC

\* ------------------------------------------------------------------ bounds

\* Lines added to the well-formed mapping file (noise, duplicates, bad fields).
MaxExtra == 1

\* Length of the byte sequence handed to the converter.
MaxData == 9

\* ------------------------------------------------ generate-maps.py: constants

\* range(256) / [0xFFFD] * 256 / len(seen) != 256 / len(tbl) == 256
TableSize == 256

\* U+FFFD, what errors="replace" substitutes and what tbl starts filled with.
ReplacementChar == 65533

\* The charmap codecs' marker for a byte without a mapping (U+FFFE in their
\* decoding tables); decoding such a byte is a decode error.
Undefined == 65534

\* 0x10FFFF, the largest codepoint table_from_mapping_file accepts.
MaxCodepoint == 1114111

\* 0xFF, the largest byte table_from_mapping_file accepts.
MaxByte == 255

\* U+2302 HOUSE, what both Amiga patches store.
House == 8962

\* 0x7F, the index both Amiga patches store it at.
HouseByte == 127

\* missing[:16] in the incomplete-mapping error message.
MissingShown == 16

\* 16 entries per emitted row.
RowWidth == 16

Bytes == 0..(TableSize - 1)

\* The codec name "cp437" as the string the script passes around.
cp437 ==
    <<"c", "p", "4", "3", "7">>

\* The codec name "cp850" as the string the script passes around.
cp850 ==
    <<"c", "p", "8", "5", "0">>

\* The codec name "cp852" as the string the script passes around.
cp852 ==
    <<"c", "p", "8", "5", "2">>

\* The codec name "cp855" as the string the script passes around.
cp855 ==
    <<"c", "p", "8", "5", "5">>

\* The codec name "cp857" as the string the script passes around.
cp857 ==
    <<"c", "p", "8", "5", "7">>

\* The codec name "cp860" as the string the script passes around.
cp860 ==
    <<"c", "p", "8", "6", "0">>

\* The codec name "cp861" as the string the script passes around.
cp861 ==
    <<"c", "p", "8", "6", "1">>

\* The codec name "cp862" as the string the script passes around.
cp862 ==
    <<"c", "p", "8", "6", "2">>

\* The codec name "cp863" as the string the script passes around.
cp863 ==
    <<"c", "p", "8", "6", "3">>

\* The codec name "cp865" as the string the script passes around.
cp865 ==
    <<"c", "p", "8", "6", "5">>

\* The codec name "cp866" as the string the script passes around.
cp866 ==
    <<"c", "p", "8", "6", "6">>

\* The codec name "cp775" as the string the script passes around.
cp775 ==
    <<"c", "p", "7", "7", "5">>

\* The codec name "cp737" as the string the script passes around.
cp737 ==
    <<"c", "p", "7", "3", "7">>

\* The codec name "cp869" as the string the script passes around.
cp869 ==
    <<"c", "p", "8", "6", "9">>

\* The codec name "latin-1" as the string the script passes around.
latin_1 ==
    <<"l", "a", "t", "i", "n", "-", "1">>

\* The codec name "iso8859-15" as the string the script passes around.
iso8859_15 ==
    <<"i", "s", "o", "8", "8", "5", "9", "-", "1", "5">>

\* The codec name "iso8859-2" as the string the script passes around.
iso8859_2 ==
    <<"i", "s", "o", "8", "8", "5", "9", "-", "2">>

\* Bytes 0x80-0xFF of each codec's decoding table as the codec library ships it
\* (entry k is byte 0x7F + k); Undefined marks a byte the codec has no mapping for.
\* Bytes 0x00-0x7F decode to themselves in every one of these codecs.
decoding_table(py_codec) ==
    CASE py_codec = cp437 ->
    <<
       199, 252, 233, 226, 228, 224, 229, 231, 234, 235, 232, 239, 238, 236, 196, 197,
       201, 230, 198, 244, 246, 242, 251, 249, 255, 214, 220, 162, 163, 165, 8359, 402,
       225, 237, 243, 250, 241, 209, 170, 186, 191, 8976, 172, 189, 188, 161, 171, 187,
       9617, 9618, 9619, 9474, 9508, 9569, 9570, 9558, 9557, 9571, 9553, 9559, 9565, 9564, 9563, 9488,
       9492, 9524, 9516, 9500, 9472, 9532, 9566, 9567, 9562, 9556, 9577, 9574, 9568, 9552, 9580, 9575,
       9576, 9572, 9573, 9561, 9560, 9554, 9555, 9579, 9578, 9496, 9484, 9608, 9604, 9612, 9616, 9600,
       945, 223, 915, 960, 931, 963, 181, 964, 934, 920, 937, 948, 8734, 966, 949, 8745,
       8801, 177, 8805, 8804, 8992, 8993, 247, 8776, 176, 8729, 183, 8730, 8319, 178, 9632, 160
    >>
      [] py_codec = cp850 ->
    <<
       199, 252, 233, 226, 228, 224, 229, 231, 234, 235, 232, 239, 238, 236, 196, 197,
       201, 230, 198, 244, 246, 242, 251, 249, 255, 214, 220, 248, 163, 216, 215, 402,
       225, 237, 243, 250, 241, 209, 170, 186, 191, 174, 172, 189, 188, 161, 171, 187,
       9617, 9618, 9619, 9474, 9508, 193, 194, 192, 169, 9571, 9553, 9559, 9565, 162, 165, 9488,
       9492, 9524, 9516, 9500, 9472, 9532, 227, 195, 9562, 9556, 9577, 9574, 9568, 9552, 9580, 164,
       240, 208, 202, 203, 200, 305, 205, 206, 207, 9496, 9484, 9608, 9604, 166, 204, 9600,
       211, 223, 212, 210, 245, 213, 181, 254, 222, 218, 219, 217, 253, 221, 175, 180,
       173, 177, 8215, 190, 182, 167, 247, 184, 176, 168, 183, 185, 179, 178, 9632, 160
    >>
      [] py_codec = cp852 ->
    <<
       199, 252, 233, 226, 228, 367, 263, 231, 322, 235, 336, 337, 238, 377, 196, 262,
       201, 313, 314, 244, 246, 317, 318, 346, 347, 214, 220, 356, 357, 321, 215, 269,
       225, 237, 243, 250, 260, 261, 381, 382, 280, 281, 172, 378, 268, 351, 171, 187,
       9617, 9618, 9619, 9474, 9508, 193, 194, 282, 350, 9571, 9553, 9559, 9565, 379, 380, 9488,
       9492, 9524, 9516, 9500, 9472, 9532, 258, 259, 9562, 9556, 9577, 9574, 9568, 9552, 9580, 164,
       273, 272, 270, 203, 271, 327, 205, 206, 283, 9496, 9484, 9608, 9604, 354, 366, 9600,
       211, 223, 212, 323, 324, 328, 352, 353, 340, 218, 341, 368, 253, 221, 355, 180,
       173, 733, 731, 711, 728, 167, 247, 184, 176, 168, 729, 369, 344, 345, 9632, 160
    >>
      [] py_codec = cp855 ->
    <<
       1106, 1026, 1107, 1027, 1105, 1025, 1108, 1028, 1109, 1029, 1110, 1030, 1111, 1031, 1112, 1032,
       1113, 1033, 1114, 1034, 1115, 1035, 1116, 1036, 1118, 1038, 1119, 1039, 1102, 1070, 1098, 1066,
       1072, 1040, 1073, 1041, 1094, 1062, 1076, 1044, 1077, 1045, 1092, 1060, 1075, 1043, 171, 187,
       9617, 9618, 9619, 9474, 9508, 1093, 1061, 1080, 1048, 9571, 9553, 9559, 9565, 1081, 1049, 9488,
       9492, 9524, 9516, 9500, 9472, 9532, 1082, 1050, 9562, 9556, 9577, 9574, 9568, 9552, 9580, 164,
       1083, 1051, 1084, 1052, 1085, 1053, 1086, 1054, 1087, 9496, 9484, 9608, 9604, 1055, 1103, 9600,
       1071, 1088, 1056, 1089, 1057, 1090, 1058, 1091, 1059, 1078, 1046, 1074, 1042, 1100, 1068, 8470,
       173, 1099, 1067, 1079, 1047, 1096, 1064, 1101, 1069, 1097, 1065, 1095, 1063, 167, 9632, 160
    >>
      [] py_codec = cp857 ->
    <<
       199, 252, 233, 226, 228, 224, 229, 231, 234, 235, 232, 239, 238, 305, 196, 197,
       201, 230, 198, 244, 246, 242, 251, 249, 304, 214, 220, 248, 163, 216, 350, 351,
       225, 237, 243, 250, 241, 209, 286, 287, 191, 174, 172, 189, 188, 161, 171, 187,
       9617, 9618, 9619, 9474, 9508, 193, 194, 192, 169, 9571, 9553, 9559, 9565, 162, 165, 9488,
       9492, 9524, 9516, 9500, 9472, 9532, 227, 195, 9562, 9556, 9577, 9574, 9568, 9552, 9580, 164,
       186, 170, 202, 203, 200, Undefined, 205, 206, 207, 9496, 9484, 9608, 9604, 166, 204, 9600,
       211, 223, 212, 210, 245, 213, 181, Undefined, 215, 218, 219, 217, 236, 255, 175, 180,
       173, 177, Undefined, 190, 182, 167, 247, 184, 176, 168, 183, 185, 179, 178, 9632, 160
    >>
      [] py_codec = cp860 ->
    <<
       199, 252, 233, 226, 227, 224, 193, 231, 234, 202, 232, 205, 212, 236, 195, 194,
       201, 192, 200, 244, 245, 242, 218, 249, 204, 213, 220, 162, 163, 217, 8359, 211,
       225, 237, 243, 250, 241, 209, 170, 186, 191, 210, 172, 189, 188, 161, 171, 187,
       9617, 9618, 9619, 9474, 9508, 9569, 9570, 9558, 9557, 9571, 9553, 9559, 9565, 9564, 9563, 9488,
       9492, 9524, 9516, 9500, 9472, 9532, 9566, 9567, 9562, 9556, 9577, 9574, 9568, 9552, 9580, 9575,
       9576, 9572, 9573, 9561, 9560, 9554, 9555, 9579, 9578, 9496, 9484, 9608, 9604, 9612, 9616, 9600,
       945, 223, 915, 960, 931, 963, 181, 964, 934, 920, 937, 948, 8734, 966, 949, 8745,
       8801, 177, 8805, 8804, 8992, 8993, 247, 8776, 176, 8729, 183, 8730, 8319, 178, 9632, 160
    >>
      [] py_codec = cp861 ->
    <<
       199, 252, 233, 226, 228, 224, 229, 231, 234, 235, 232, 208, 240, 222, 196, 197,
       201, 230, 198, 244, 246, 254, 251, 221, 253, 214, 220, 248, 163, 216, 8359, 402,
       225, 237, 243, 250, 193, 205, 211, 218, 191, 8976, 172, 189, 188, 161, 171, 187,
       9617, 9618, 9619, 9474, 9508, 9569, 9570, 9558, 9557, 9571, 9553, 9559, 9565, 9564, 9563, 9488,
       9492, 9524, 9516, 9500, 9472, 9532, 9566, 9567, 9562, 9556, 9577, 9574, 9568, 9552, 9580, 9575,
       9576, 9572, 9573, 9561, 9560, 9554, 9555, 9579, 9578, 9496, 9484, 9608, 9604, 9612, 9616, 9600,
       945, 223, 915, 960, 931, 963, 181, 964, 934, 920, 937, 948, 8734, 966, 949, 8745,
       8801, 177, 8805, 8804, 8992, 8993, 247, 8776, 176, 8729, 183, 8730, 8319, 178, 9632, 160
    >>
      [] py_codec = cp862 ->
    <<
       1488, 1489, 1490, 1491, 1492, 1493, 1494, 1495, 1496, 1497, 1498, 1499, 1500, 1501, 1502, 1503,
       1504, 1505, 1506, 1507, 1508, 1509, 1510, 1511, 1512, 1513, 1514, 162, 163, 165, 8359, 402,
       225, 237, 243, 250, 241, 209, 170, 186, 191, 8976, 172, 189, 188, 161, 171, 187,
       9617, 9618, 9619, 9474, 9508, 9569, 9570, 9558, 9557, 9571, 9553, 9559, 9565, 9564, 9563, 9488,
       9492, 9524, 9516, 9500, 9472, 9532, 9566, 9567, 9562, 9556, 9577, 9574, 9568, 9552, 9580, 9575,
       9576, 9572, 9573, 9561, 9560, 9554, 9555, 9579, 9578, 9496, 9484, 9608, 9604, 9612, 9616, 9600,
       945, 223, 915, 960, 931, 963, 181, 964, 934, 920, 937, 948, 8734, 966, 949, 8745,
       8801, 177, 8805, 8804, 8992, 8993, 247, 8776, 176, 8729, 183, 8730, 8319, 178, 9632, 160
    >>
      [] py_codec = cp863 ->
    <<
       199, 252, 233, 226, 194, 224, 182, 231, 234, 235, 232, 239, 238, 8215, 192, 167,
       201, 200, 202, 244, 203, 207, 251, 249, 164, 212, 220, 162, 163, 217, 219, 402,
       166, 180, 243, 250, 168, 184, 179, 175, 206, 8976, 172, 189, 188, 190, 171, 187,
       9617, 9618, 9619, 9474, 9508, 9569, 9570, 9558, 9557, 9571, 9553, 9559, 9565, 9564, 9563, 9488,
       9492, 9524, 9516, 9500, 9472, 9532, 9566, 9567, 9562, 9556, 9577, 9574, 9568, 9552, 9580, 9575,
       9576, 9572, 9573, 9561, 9560, 9554, 9555, 9579, 9578, 9496, 9484, 9608, 9604, 9612, 9616, 9600,
       945, 223, 915, 960, 931, 963, 181, 964, 934, 920, 937, 948, 8734, 966, 949, 8745,
       8801, 177, 8805, 8804, 8992, 8993, 247, 8776, 176, 8729, 183, 8730, 8319, 178, 9632, 160
    >>
      [] py_codec = cp865 ->
    <<
       199, 252, 233, 226, 228, 224, 229, 231, 234, 235, 232, 239, 238, 236, 196, 197,
       201, 230, 198, 244, 246, 242, 251, 249, 255, 214, 220, 248, 163, 216, 8359, 402,
       225, 237, 243, 250, 241, 209, 170, 186, 191, 8976, 172, 189, 188, 161, 171, 164,
       9617, 9618, 9619, 9474, 9508, 9569, 9570, 9558, 9557, 9571, 9553, 9559, 9565, 9564, 9563, 9488,
       9492, 9524, 9516, 9500, 9472, 9532, 9566, 9567, 9562, 9556, 9577, 9574, 9568, 9552, 9580, 9575,
       9576, 9572, 9573, 9561, 9560, 9554, 9555, 9579, 9578, 9496, 9484, 9608, 9604, 9612, 9616, 9600,
       945, 223, 915, 960, 931, 963, 181, 964, 934, 920, 937, 948, 8734, 966, 949, 8745,
       8801, 177, 8805, 8804, 8992, 8993, 247, 8776, 176, 8729, 183, 8730, 8319, 178, 9632, 160
    >>
      [] py_codec = cp866 ->
    <<
       1040, 1041, 1042, 1043, 1044, 1045, 1046, 1047, 1048, 1049, 1050, 1051, 1052, 1053, 1054, 1055,
       1056, 1057, 1058, 1059, 1060, 1061, 1062, 1063, 1064, 1065, 1066, 1067, 1068, 1069, 1070, 1071,
       1072, 1073, 1074, 1075, 1076, 1077, 1078, 1079, 1080, 1081, 1082, 1083, 1084, 1085, 1086, 1087,
       9617, 9618, 9619, 9474, 9508, 9569, 9570, 9558, 9557, 9571, 9553, 9559, 9565, 9564, 9563, 9488,
       9492, 9524, 9516, 9500, 9472, 9532, 9566, 9567, 9562, 9556, 9577, 9574, 9568, 9552, 9580, 9575,
       9576, 9572, 9573, 9561, 9560, 9554, 9555, 9579, 9578, 9496, 9484, 9608, 9604, 9612, 9616, 9600,
       1088, 1089, 1090, 1091, 1092, 1093, 1094, 1095, 1096, 1097, 1098, 1099, 1100, 1101, 1102, 1103,
       1025, 1105, 1028, 1108, 1031, 1111, 1038, 1118, 176, 8729, 183, 8730, 8470, 164, 9632, 160
    >>
      [] py_codec = cp775 ->
    <<
       262, 252, 233, 257, 228, 291, 229, 263, 322, 275, 342, 343, 299, 377, 196, 197,
       201, 230, 198, 333, 246, 290, 162, 346, 347, 214, 220, 248, 163, 216, 215, 164,
       256, 298, 243, 379, 380, 378, 8221, 166, 169, 174, 172, 189, 188, 321, 171, 187,
       9617, 9618, 9619, 9474, 9508, 260, 268, 280, 278, 9571, 9553, 9559, 9565, 302, 352, 9488,
       9492, 9524, 9516, 9500, 9472, 9532, 370, 362, 9562, 9556, 9577, 9574, 9568, 9552, 9580, 381,
       261, 269, 281, 279, 303, 353, 371, 363, 382, 9496, 9484, 9608, 9604, 9612, 9616, 9600,
       211, 223, 332, 323, 245, 213, 181, 324, 310, 311, 315, 316, 326, 274, 325, 8217,
       173, 177, 8220, 190, 182, 167, 247, 8222, 176, 8729, 183, 185, 179, 178, 9632, 160
    >>
      [] py_codec = cp737 ->
    <<
       913, 914, 915, 916, 917, 918, 919, 920, 921, 922, 923, 924, 925, 926, 927, 928,
       929, 931, 932, 933, 934, 935, 936, 937, 945, 946, 947, 948, 949, 950, 951, 952,
       953, 954, 955, 956, 957, 958, 959, 960, 961, 963, 962, 964, 965, 966, 967, 968,
       9617, 9618, 9619, 9474, 9508, 9569, 9570, 9558, 9557, 9571, 9553, 9559, 9565, 9564, 9563, 9488,
       9492, 9524, 9516, 9500, 9472, 9532, 9566, 9567, 9562, 9556, 9577, 9574, 9568, 9552, 9580, 9575,
       9576, 9572, 9573, 9561, 9560, 9554, 9555, 9579, 9578, 9496, 9484, 9608, 9604, 9612, 9616, 9600,
       969, 940, 941, 942, 970, 943, 972, 973, 971, 974, 902, 904, 905, 906, 908, 910,
       911, 177, 8805, 8804, 938, 939, 247, 8776, 176, 8729, 183, 8730, 8319, 178, 9632, 160
    >>
      [] py_codec = cp869 ->
    <<
       Undefined, Undefined, Undefined, Undefined, Undefined, Undefined, 902, Undefined, 183, 172, 166, 8216, 8217, 904, 8213, 905,
       906, 938, 908, Undefined, Undefined, 910, 939, 169, 911, 178, 179, 940, 163, 941, 942, 943,
       970, 912, 972, 973, 913, 914, 915, 916, 917, 918, 919, 189, 920, 921, 171, 187,
       9617, 9618, 9619, 9474, 9508, 922, 923, 924, 925, 9571, 9553, 9559, 9565, 926, 927, 9488,
       9492, 9524, 9516, 9500, 9472, 9532, 928, 929, 9562, 9556, 9577, 9574, 9568, 9552, 9580, 931,
       932, 933, 934, 935, 936, 937, 945, 946, 947, 9496, 9484, 9608, 9604, 948, 949, 9600,
       950, 951, 952, 953, 954, 955, 956, 957, 958, 959, 960, 961, 963, 962, 964, 900,
       173, 177, 965, 966, 967, 167, 968, 901, 176, 168, 969, 971, 944, 974, 9632, 160
    >>
      [] py_codec = iso8859_15 ->
    <<
       128, 129, 130, 131, 132, 133, 134, 135, 136, 137, 138, 139, 140, 141, 142, 143,
       144, 145, 146, 147, 148, 149, 150, 151, 152, 153, 154, 155, 156, 157, 158, 159,
       160, 161, 162, 163, 8364, 165, 352, 167, 353, 169, 170, 171, 172, 173, 174, 175,
       176, 177, 178, 179, 381, 181, 182, 183, 382, 185, 186, 187, 338, 339, 376, 191,
       192, 193, 194, 195, 196, 197, 198, 199, 200, 201, 202, 203, 204, 205, 206, 207,
       208, 209, 210, 211, 212, 213, 214, 215, 216, 217, 218, 219, 220, 221, 222, 223,
       224, 225, 226, 227, 228, 229, 230, 231, 232, 233, 234, 235, 236, 237, 238, 239,
       240, 241, 242, 243, 244, 245, 246, 247, 248, 249, 250, 251, 252, 253, 254, 255
    >>
      [] py_codec = iso8859_2 ->
    <<
       128, 129, 130, 131, 132, 133, 134, 135, 136, 137, 138, 139, 140, 141, 142, 143,
       144, 145, 146, 147, 148, 149, 150, 151, 152, 153, 154, 155, 156, 157, 158, 159,
       160, 260, 728, 321, 164, 317, 346, 167, 168, 352, 350, 356, 377, 173, 381, 379,
       176, 261, 731, 322, 180, 318, 347, 711, 184, 353, 351, 357, 378, 733, 382, 380,
       340, 193, 194, 258, 196, 313, 262, 199, 268, 201, 280, 203, 282, 205, 206, 270,
       272, 323, 327, 211, 212, 336, 214, 215, 344, 366, 218, 368, 220, 221, 354, 223,
       341, 225, 226, 259, 228, 314, 263, 231, 269, 233, 281, 235, 283, 237, 238, 271,
       273, 324, 328, 243, 244, 337, 246, 247, 345, 367, 250, 369, 252, 253, 355, 729
    >>
      [] OTHER -> [k \in 1..128 |-> 127 + k]

NoCodec == <<>>

NoFile == ""

AmigaMappingFile == "references/mappings/Amiga-1251.txt"

EncodingSpec(cpp_name, py_codec, mapping_file) ==
    [cpp_name |-> cpp_name, py_codec |-> py_codec, mapping_file |-> mapping_file]

ENCODINGS ==
    << EncodingSpec("Cp437", cp437, NoFile),
       EncodingSpec("Cp850", cp850, NoFile),
       EncodingSpec("Cp852", cp852, NoFile),
       EncodingSpec("Cp855", cp855, NoFile),
       EncodingSpec("Cp857", cp857, NoFile),
       EncodingSpec("Cp860", cp860, NoFile),
       EncodingSpec("Cp861", cp861, NoFile),
       EncodingSpec("Cp862", cp862, NoFile),
       EncodingSpec("Cp863", cp863, NoFile),
       EncodingSpec("Cp865", cp865, NoFile),
       EncodingSpec("Cp866", cp866, NoFile),
       EncodingSpec("Cp775", cp775, NoFile),
       EncodingSpec("Cp737", cp737, NoFile),
       EncodingSpec("Cp869", cp869, NoFile),
       EncodingSpec("AmigaLatin1", latin_1, NoFile),
       EncodingSpec("AmigaIso8859_15", iso8859_15, NoFile),
       EncodingSpec("AmigaIso8859_2", iso8859_2, NoFile),
       EncodingSpec("Amiga1251", NoCodec, AmigaMappingFile) >>

\* The dict of drawable glyphs for the bytes that overlap the control range:
\* entry k is byte k - 1 for 0x00..0x1F; 0x7F is the one key outside that run.
PC_OEM_CONTROL_GLYPHS_low ==
    << 0, 9786, 9787, 9829, 9830, 9827, 9824, 8226,
       9688, 9675, 9689, 9794, 9792, 9834, 9835, 9788,
       9658, 9668, 8597, 8252, 182, 167, 9644, 8616,
       8593, 8595, 8594, 8592, 8735, 8596, 9650, 9660 >>

PC_OEM_CONTROL_GLYPHS_keys == (0..31) \cup {127}

PC_OEM_CONTROL_GLYPHS ==
    [b \in PC_OEM_CONTROL_GLYPHS_keys |->
        IF b = 127 THEN 8962 ELSE PC_OEM_CONTROL_GLYPHS_low[b + 1]]

\* Results of a call: a returned value, or the exception that left it.
Return(v) == [raised |-> "", detail |-> <<>>, value |-> v]

Raise(e, d) == [raised |-> e, detail |-> d, value |-> <<>>]

\* str.startswith
startswith(s, prefix) ==
    /\ Len(s) >= Len(prefix)
    /\ SubSeq(s, 1, Len(prefix)) = prefix

\* Mutant of decode: errors="strict", where a byte without a mapping decodes to
\* nothing (the decode error leaves no character).
decode_strict(py_codec, b) ==
    IF b < 128 \/ py_codec = latin_1
    THEN <<b>>
    ELSE LET c == decoding_table(py_codec)[b - 127]
         IN  IF c = Undefined THEN <<>> ELSE <<c>>

\* bytes([b]).decode(py_codec, errors="replace"): the decoded string, as the
\* sequence of its codepoints. latin-1 is not table-driven: byte b is U+00bb.
decode(py_codec, b) ==
    IF b < 128 \/ py_codec = latin_1
    THEN <<b>>
    ELSE LET c == decoding_table(py_codec)[b - 127]
         IN  IF c = Undefined THEN <<ReplacementChar>> ELSE <<c>>

\* Mutant of table_for_entry: the control-glyph convention is never applied.
table_for_entry_no_override(py_codec, b) ==
    decode(py_codec, b)[1]

\* Mutant of table_for_entry: the control-glyph convention is applied to every
\* codec, whatever its name.
table_for_entry_all_override(py_codec, b) ==
    IF b \in DOMAIN PC_OEM_CONTROL_GLYPHS
    THEN PC_OEM_CONTROL_GLYPHS[b]
    ELSE decode(py_codec, b)[1]

\* The entry table_for appends for byte b.
table_for_entry(py_codec, b) ==
    IF startswith(py_codec, <<"c", "p">>) /\ b \in DOMAIN PC_OEM_CONTROL_GLYPHS
    THEN PC_OEM_CONTROL_GLYPHS[b]
    ELSE decode(py_codec, b)[1]

\* table_for: the list out, entry b + 1 for byte b; the assert on len(s) raises.
table_for(py_codec) ==
    IF \E b \in Bytes :
          /\ ~(startswith(py_codec, <<"c", "p">>) /\ b \in DOMAIN PC_OEM_CONTROL_GLYPHS)
          /\ Len(decode(py_codec, b)) # 1
    THEN Raise("AssertionError", <<>>)
    ELSE Return([i \in 1..TableSize |-> table_for_entry(py_codec, i - 1)])

\* ------------------------------------------- generate-maps.py: mapping files

Whitespace == {" ", "\t"}

UpperHex ==
    <<"0", "1", "2", "3", "4", "5", "6", "7", "8", "9", "A", "B", "C", "D", "E", "F">>

LowerHex ==
    <<"0", "1", "2", "3", "4", "5", "6", "7", "8", "9", "a", "b", "c", "d", "e", "f">>

\* [0-9A-Fa-f]
HexChars ==
    { "0", "1", "2", "3", "4", "5", "6", "7", "8", "9",
      "A", "B", "C", "D", "E", "F", "a", "b", "c", "d", "e", "f" }

IsHex(c) == c \in HexChars

\* The value of each hexadecimal digit, in either case.
HexValues ==
    [c \in HexChars |-> (CHOOSE d \in 1..16 : UpperHex[d] = c \/ LowerHex[d] = c) - 1]

HexVal(c) == HexValues[c]

\* \w for the characters mapping files are written in.
WordChars ==
    { "0", "1", "2", "3", "4", "5", "6", "7", "8", "9", "_",
      "a", "b", "c", "d", "e", "f", "g", "h", "i", "j", "k", "l", "m",
      "n", "o", "p", "q", "r", "s", "t", "u", "v", "w", "x", "y", "z",
      "A", "B", "C", "D", "E", "F", "G", "H", "I", "J", "K", "L", "M",
      "N", "O", "P", "Q", "R", "S", "T", "U", "V", "W", "X", "Y", "Z" }

\* int(s, 16)
RECURSIVE int16(_)
int16(s) ==
    IF s = <<>> THEN 0
    ELSE 16 * int16(SubSeq(s, 1, Len(s) - 1)) + HexVal(s[Len(s)])

\* The number of consecutive characters of line from position p on that are in set.
RECURSIVE Run(_, _, _)
Run(line, p, set) ==
    IF p <= Len(line) /\ line[p] \in set THEN 1 + Run(line, p + 1, set) ELSE 0

NoMatch == [matched |-> FALSE, g1 |-> <<>>, g2 |-> <<>>]

\* _MAP_LINE_RE.match(line) for ^\s*0x([0-9A-Fa-f]{2})\s+0x([0-9A-Fa-f]{4,6})\b :
\* p0 is where the byte field's "0x" must start, p1 the first character after the
\* two byte digits, p2 where the codepoint field's "0x" must start. The greedy
\* {4,6} can only end at the end of the hex run: stopping inside the run leaves a
\* digit on both sides, which is no word boundary.
MAP_LINE_RE_match(line) ==
    LET p0 == 1 + Run(line, 1, Whitespace)
        p1 == p0 + 4
        ws == Run(line, p1, Whitespace)
        p2 == p1 + ws
        hx == Run(line, p2 + 2, HexChars)
        pe == p2 + 2 + hx
    IN  IF /\ Len(line) >= p0 + 3
           /\ line[p0] = "0"
           /\ line[p0 + 1] = "x"
           /\ IsHex(line[p0 + 2])
           /\ IsHex(line[p0 + 3])
           /\ ws >= 1
           /\ Len(line) >= p2 + 1
           /\ line[p2] = "0"
           /\ line[p2 + 1] = "x"
           /\ hx >= 4
           /\ hx <= 6
           /\ (pe > Len(line) \/ line[pe] \notin WordChars)
        THEN [matched |-> TRUE,
              g1 |-> SubSeq(line, p0 + 2, p0 + 3),
              g2 |-> SubSeq(line, p2 + 2, pe - 1)]
        ELSE NoMatch

\* missing[:16]: the first bytes, in order, that no line was seen for.
missing_prefix(seen) ==
    LET missing == SelectSeq([i \in 1..TableSize |-> i - 1], LAMBDA b : b \notin seen)
    IN  SubSeq(missing, 1, IF Len(missing) < MissingShown THEN Len(missing) ELSE MissingShown)

\* Mutant of parse_line: a byte keeps the codepoint of its first line.
parse_line_first_wins(st, line) ==
    LET m == MAP_LINE_RE_match(line)
        b == int16(m.g1)
        cp == int16(m.g2)
    IN  IF st.raised # "" \/ ~m.matched THEN st
        ELSE IF ~(0 <= b /\ b <= MaxByte)
             THEN [st EXCEPT !.raised = "byte out of range", !.detail = <<b>>]
        ELSE IF ~(0 <= cp /\ cp <= MaxCodepoint)
             THEN [st EXCEPT !.raised = "codepoint out of range", !.detail = <<b, cp>>]
        ELSE IF b \in st.seen THEN st
        ELSE [st EXCEPT !.tbl[b + 1] = cp, !.seen = @ \cup {b}]

\* One iteration of the loop over the lines, from the locals st.tbl and st.seen;
\* once an exception is raised (st.raised) no further line is looked at.
parse_line(st, line) ==
    LET m == MAP_LINE_RE_match(line)
        b == int16(m.g1)
        cp == int16(m.g2)
    IN  IF st.raised # "" \/ ~m.matched THEN st
        ELSE IF ~(0 <= b /\ b <= MaxByte)
             THEN [st EXCEPT !.raised = "byte out of range", !.detail = <<b>>]
        ELSE IF ~(0 <= cp /\ cp <= MaxCodepoint)
             THEN [st EXCEPT !.raised = "codepoint out of range", !.detail = <<b, cp>>]
        ELSE [st EXCEPT !.tbl[b + 1] = cp, !.seen = @ \cup {b}]

\* The loop over lines lo..hi, in order (split in halves to bound the nesting).
RECURSIVE parse_lines(_, _, _, _)
parse_lines(text, st, lo, hi) ==
    IF lo > hi THEN st
    ELSE IF lo = hi THEN parse_line(st, text[lo])
    ELSE LET mid == (lo + hi) \div 2
             left == parse_lines(text, st, lo, mid)
         IN  IF left.raised # "" THEN left ELSE parse_lines(text, left, mid + 1, hi)

\* Mutant of table_from_mapping_file: completeness is judged by the stored value,
\* an entry still U+FFFD counting as missing.
table_from_mapping_file_by_value(text) ==
    LET start == [raised |-> "", detail |-> <<>>,
                  tbl |-> [i \in 1..TableSize |-> ReplacementChar], seen |-> {}]
        end == parse_lines(text, start, 1, Len(text))
        unset == { b \in Bytes : end.tbl[b + 1] = ReplacementChar }
    IN  IF end.raised # "" THEN Raise(end.raised, end.detail)
        ELSE IF unset # {}
             THEN Raise("expected 256 mappings", missing_prefix(Bytes \ unset))
        ELSE Return(end.tbl)

\* table_from_mapping_file, given the lines read_text(...).splitlines() returned.
table_from_mapping_file(text) ==
    LET start == [raised |-> "", detail |-> <<>>,
                  tbl |-> [i \in 1..TableSize |-> ReplacementChar], seen |-> {}]
        end == parse_lines(text, start, 1, Len(text))
    IN  IF end.raised # "" THEN Raise(end.raised, end.detail)
        ELSE IF Cardinality(end.seen) # TableSize
             THEN Raise("expected 256 mappings", missing_prefix(end.seen))
        ELSE Return(end.tbl)

patch_amiga_latin1(tbl) ==
    IF Len(tbl) = TableSize THEN [tbl EXCEPT ![HouseByte + 1] = House] ELSE tbl

patch_amiga_house_at_7f(tbl) ==
    IF Len(tbl) = TableSize THEN [tbl EXCEPT ![HouseByte + 1] = House] ELSE tbl

\* emit_cpp: the declaration's name and its rows of 16 entries. The entries stay
\* numbers: _cpp_char32 only prints them as hex constants.
emit_cpp(name, tbl) ==
    [name |-> name,
     rows |-> [r \in 1..(TableSize \div RowWidth) |->
                 SubSeq(tbl, RowWidth * (r - 1) + 1, RowWidth * r)]]
\* # comment
CommentLine ==
    <<"#", " ", "c", "o", "m", "m", "e", "n", "t">>

\* 0x1FF 0x0041
WideByteLine ==
    <<"0", "x", "1", "F", "F", " ", "0", "x", "0", "0", "4", "1">>

\* 0x41 0x110000
BigCodepointLine ==
    <<"0", "x", "4", "1", " ", "0", "x", "1", "1", "0", "0", "0", "0">>

\* 0x41 0xD800
SurrogateLine ==
    <<"0", "x", "4", "1", " ", "0", "x", "D", "8", "0", "0">>

\* 0x7f<TAB>0x2302<TAB>#HOUSE
HouseLine ==
    <<"0", "x", "7", "f", "\t", "0", "x", "2", "3", "0", "2", "\t", "#", "H", "O", "U", "S", "E">>

\*   0x00 0xFFFD #explicit
ExplicitReplacementLine ==
    <<" ", " ", "0", "x", "0", "0", " ", "0", "x", "F", "F", "F", "D", " ", "#", "e", "x", "p", "l", "i", "c", "i", "t">>

\* 0x41 0x1100000
SevenDigitLine ==
    <<"0", "x", "4", "1", " ", "0", "x", "1", "1", "0", "0", "0", "0", "0">>

ExtraLines ==
    << CommentLine,
       WideByteLine,
       BigCodepointLine,
       SurrogateLine,
       HouseLine,
       ExplicitReplacementLine,
       SevenDigitLine >>

\* ------------------------------------------------ the mapping files considered

\* Bytes whose line the mapping file may lack.
ProbeBytes == {0, 127}

Hex2(b) == <<UpperHex[(b \div 16) + 1], UpperHex[(b % 16) + 1]>>

Hex4(cp) == Hex2(cp \div 256) \o Hex2(cp % 256)

\* A well-formed table in the style of Amiga-1251.txt: ASCII and C1 controls as
\* themselves, 0xC0..0xFF the Cyrillic letters U+0410..U+044F.
BaseCodepoint(b) == IF b < 192 THEN b ELSE 1040 + (b - 192)

\* "0xBB<TAB>0xCCCC"
BaseLine(b) == <<"0", "x">> \o Hex2(b) \o <<"\t", "0", "x">> \o Hex4(BaseCodepoint(b))

BaseLines(missing) ==
    LET present == SelectSeq([i \in 1..TableSize |-> i - 1], LAMBDA b : b \notin missing)
    IN  [i \in 1..Len(present) |-> BaseLine(present[i])]

\* The sequences over 1..Len(ExtraLines) of length at most n.
RECURSIVE ExtraChoices(_)
ExtraChoices(n) ==
    IF n = 0 THEN {<<>>}
    ELSE LET shorter == ExtraChoices(n - 1)
         IN  shorter \cup { Append(s, e) : s \in shorter, e \in 1..Len(ExtraLines) }

\* A mapping file: a comment header and one line per byte outside missing, with
\* the extra lines before them (front) or after them.
MappingFiles ==
    [missing : SUBSET ProbeBytes, extras : ExtraChoices(MaxExtra), front : BOOLEAN]

\* map_path.read_text(encoding="utf-8", errors="replace").splitlines()
read_text_splitlines(f) ==
    LET extra == [i \in 1..Len(f.extras) |-> ExtraLines[f.extras[i]]]
        base == <<CommentLine>> \o BaseLines(f.missing)
    IN  IF f.front THEN extra \o base ELSE base \o extra

\* ---------------------------------------------------------------- the state

VARIABLES
    mapfile,     \* generate-maps: the mapping file, once read: <<>> or <<file>>
    pc,          \* generate-maps: "build", "patch", "done", "failed" ("off": not run)
    idx,         \* generate-maps: position of `spec` in ENCODINGS (1-based)
    tbl,         \* generate-maps: the local tbl of the loop body
    out_s,       \* generate-maps: the emitted declarations
    error,       \* generate-maps: the exception that ended the run, if any
    output,      \* generate-maps: what was written, and where
    lit_pc,      \* literal: "call", "returned" ("off": not run)
    data,        \* literal: the bytes argument
    wrap,        \* literal: the wrap argument
    result,      \* literal: what bytes_to_wrapped_bx_literal returned or raised
    cpc,         \* converter: "loop", "done", "crashed" ("off": not run)
    opts,        \* converter: the parsed Options
    fs,          \* converter: the file system
    ans_files,   \* converter: sorted(iter_ans_files(...))
    pos,         \* converter: position of f in ans_files (1-based)
    converted,   \* converter: main's counter
    skipped,     \* converter: main's counter
    printed      \* converter: the lines main printed

gmVars == <<mapfile, pc, idx, tbl, out_s, error, output>>

litVars == <<lit_pc, data, wrap, result>>

convVars == <<cpc, opts, fs, ans_files, pos, converted, skipped, printed>>

vars == <<gmVars, litVars, convVars>>

NoError == Return(<<>>)

gmOff ==
    /\ mapfile = <<>>
    /\ pc = "off"
    /\ idx = 1
    /\ tbl = <<>>
    /\ out_s = <<>>
    /\ error = NoError
    /\ output = <<>>

litOff ==
    /\ lit_pc = "off"
    /\ data = <<>>
    /\ wrap = 0
    /\ result = NoError

\* ------------------------------------------------- generate-maps.py: __main__

gmInit ==
    /\ mapfile = <<>>
    /\ pc = "build"
    /\ idx = 1
    /\ tbl = <<>>
    /\ out_s = <<>>
    /\ error = NoError
    /\ output = <<>>

\* Lines 200-205: the table of spec, or the exception building it raised; read
\* holds the mapping file when the spec is mapping-file-backed.
build_table(spec, read) ==
    IF spec.py_codec # NoCodec THEN table_for(spec.py_codec)
    ELSE IF spec.mapping_file # NoFile
         THEN table_from_mapping_file(read_text_splitlines(read[1]))
         ELSE Raise("Invalid EncodingSpec", <<>>)

\* Mutant of patch_table: only AmigaLatin1 is patched.
patch_table_latin1_only(spec, t) ==
    IF spec.cpp_name = "AmigaLatin1" THEN patch_amiga_latin1(t) ELSE t

\* Lines 207-210: the patch chosen by the encoding's name.
patch_table(spec, t) ==
    IF spec.cpp_name = "AmigaLatin1" THEN patch_amiga_latin1(t)
    ELSE IF spec.cpp_name \in {"AmigaIso8859_15", "AmigaIso8859_2"}
         THEN patch_amiga_house_at_7f(t)
         ELSE t

\* What the run has read of the mapping file once the table of spec is built: a
\* mapping-file-backed spec reads whatever file is on disk at that moment.
FilesRead(spec, sofar) ==
    IF spec.py_codec = NoCodec /\ spec.mapping_file # NoFile
    THEN { <<f>> : f \in MappingFiles }
    ELSE { sofar }

\* for spec in ENCODINGS: lines 200-205. An exception ends the program.
Build ==
    /\ pc = "build"
    /\ idx <= Len(ENCODINGS)
    /\ \E read \in FilesRead(ENCODINGS[idx], mapfile) :
          /\ mapfile' = read
          /\ LET r == build_table(ENCODINGS[idx], read)
             IN  IF r.raised # ""
                 THEN /\ pc' = "failed"
                      /\ error' = r
                      /\ tbl' = tbl
                 ELSE /\ pc' = "patch"
                      /\ error' = error
                      /\ tbl' = r.value
    /\ UNCHANGED <<idx, out_s, output>>
    /\ UNCHANGED <<litVars, convVars>>

\* Lines 207-211: patch, emit, next spec.
PatchEmit ==
    /\ pc = "patch"
    /\ LET spec == ENCODINGS[idx]
           patched == patch_table(spec, tbl)
       IN  /\ tbl' = patched
           /\ out_s' = Append(out_s, emit_cpp(spec.cpp_name, patched))
    /\ idx' = idx + 1
    /\ pc' = "build"
    /\ UNCHANGED <<mapfile, error, output>>
    /\ UNCHANGED <<litVars, convVars>>

\* Lines 212-220: the text goes to --out, or to stdout when --out is "".
WriteOut ==
    /\ pc = "build"
    /\ idx > Len(ENCODINGS)
    /\ \E out \in {"", "encodings_tables_generated.h"} :
          output' = <<[out |-> out, text |-> out_s]>>
    /\ pc' = "done"
    /\ UNCHANGED <<mapfile, idx, tbl, out_s, error>>
    /\ UNCHANGED <<litVars, convVars>>

\* ------------------------------------------------- generate-maps.py: claims

\* The encodings whose codec is of the codepage family.
CodepageFamily ==
    { "Cp437", "Cp850", "Cp852", "Cp855", "Cp857", "Cp860", "Cp861",
      "Cp862", "Cp863", "Cp865", "Cp866", "Cp775", "Cp737", "Cp869" }

\* The encodings that get the house glyph at 0x7F.
AmigaHouseEncodings == { "AmigaLatin1", "AmigaIso8859_15", "AmigaIso8859_2" }

\* The byte and codepoint fields of the lines of text that match the pattern, in
\* file order.
MatchedFields(text) ==
    LET ms == [i \in 1..Len(text) |-> MAP_LINE_RE_match(text[i])] \o <<>>
        sel == SelectSeq(ms, LAMBDA m : m.matched)
    IN  [i \in 1..Len(sel) |-> [b |-> int16(sel[i].g1), cp |-> int16(sel[i].g2)]] \o <<>>

\* The lines of the mapping file the run read.
FileText == read_text_splitlines(mapfile[1])

\* t holds, for every byte that has a matching line, the codepoint of the last one.
LastLineWins(M, t) ==
    \A i \in 1..Len(M) :
        \/ t[M[i].b + 1] = M[i].cp
        \/ \E j \in (i + 1)..Len(M) : M[j].b = M[i].b

\* The table of the current encoding has just been built and is not yet patched.
JustBuilt == pc = "patch"

\* The table of the previous encoding has been patched and emitted.
JustEmitted == pc = "build" /\ idx > 1

\* C1 - control-glyph precedence: the table built for a codepage-family encoding
\* holds, at each of the 33 bytes 0x00-0x1F and 0x7F, the override codepoint
\* (0x01 is U+263A), whatever the codec decodes that byte to.
C1_ControlGlyphPrecedence ==
    (JustBuilt /\ ENCODINGS[idx].cpp_name \in CodepageFamily) =>
        /\ Cardinality(DOMAIN PC_OEM_CONTROL_GLYPHS) = 33
        /\ \A b \in (0..31) \cup {127} : tbl[b + 1] = PC_OEM_CONTROL_GLYPHS[b]
        /\ tbl[2] = 9786

C1_Witness ==
    /\ JustBuilt
    /\ ENCODINGS[idx].cpp_name = "Cp437"
    /\ decode(cp437, 1) = <<1>>
    /\ tbl[2] = 9786

\* C2 - non-leakage: the table built (before any patch) for an encoding outside
\* the codepage family holds at every byte what the codec decodes that byte to,
\* or a codepoint that a matching line of the mapping file gives for that byte.
C2_NonLeakage ==
    (JustBuilt /\ ENCODINGS[idx].cpp_name \notin CodepageFamily) =>
        IF ENCODINGS[idx].py_codec # NoCodec
        THEN \A b \in Bytes : <<tbl[b + 1]>> = decode(ENCODINGS[idx].py_codec, b)
        ELSE LET M == MatchedFields(FileText)
             IN  \A b \in Bytes : \E i \in 1..Len(M) : M[i].b = b /\ M[i].cp = tbl[b + 1]

C2_Witness ==
    /\ JustBuilt
    /\ ENCODINGS[idx].cpp_name = "AmigaLatin1"
    /\ tbl[2] = 1
    /\ tbl[128] = 127

\* What the codec or the mapping file alone gives for byte b of encoding e: the
\* decoded byte, or the codepoint of the last matching line for b.
DefaultFor(e, b) ==
    IF e.py_codec # NoCodec THEN decode(e.py_codec, b)[1]
    ELSE LET M == MatchedFields(FileText)
             last == CHOOSE i \in 1..Len(M) :
                        M[i].b = b /\ \A j \in (i + 1)..Len(M) : M[j].b # b
         IN  M[last].cp

\* C3 as stated - house-glyph patch scope: after construction and post-processing
\* byte 0x7F is U+2302 for the three Amiga Latin/ISO encodings and is the
\* codec/mapping default for every other encoding.
C3_HousePatchScope_Original ==
    JustEmitted =>
        IF ENCODINGS[idx - 1].cpp_name \in AmigaHouseEncodings
        THEN tbl[HouseByte + 1] = House
        ELSE tbl[HouseByte + 1] = DefaultFor(ENCODINGS[idx - 1], HouseByte)

\* C3 amended - after construction and post-processing byte 0x7F is U+2302 for
\* the three Amiga Latin/ISO encodings; for the codepage-family encodings it is
\* the control-glyph override of 0x7F (also U+2302) and not the codec's U+007F;
\* for every other encoding it is the codec/mapping default.
C3_HousePatchScope ==
    JustEmitted =>
        LET e == ENCODINGS[idx - 1]
        IN  /\ e.cpp_name \in AmigaHouseEncodings =>
                  /\ tbl[HouseByte + 1] = House
                  /\ DefaultFor(e, HouseByte) = HouseByte
            /\ e.cpp_name \in CodepageFamily =>
                  /\ tbl[HouseByte + 1] = PC_OEM_CONTROL_GLYPHS[HouseByte]
                  /\ tbl[HouseByte + 1] = House
                  /\ DefaultFor(e, HouseByte) = HouseByte
            /\ e.cpp_name \notin (AmigaHouseEncodings \cup CodepageFamily) =>
                  tbl[HouseByte + 1] = DefaultFor(e, HouseByte)

C3_Witness ==
    /\ pc = "done"
    /\ tbl[HouseByte + 1] = HouseByte
    /\ \E k \in 1..Len(out_s) :
          /\ out_s[k].name = "AmigaIso8859_2"
          /\ out_s[k].rows[8][16] = House
    /\ \E k \in 1..Len(out_s) :
          /\ out_s[k].name = "Cp850"
          /\ out_s[k].rows[8][16] = House

\* The run has read the mapping file and table_from_mapping_file has returned
\* or raised.
MappingTried == mapfile # <<>>

MappingReturned == MappingTried /\ pc # "failed"

\* C4 - completeness enforcement: for a mapping file whose matching lines are all
\* in range, table_from_mapping_file returns a table exactly when every byte
\* 0-255 has a matching line, and otherwise raises the incomplete-mapping error;
\* a byte explicitly mapped to U+FFFD counts as defined.
C4_Completeness ==
    MappingTried =>
        LET M == MatchedFields(FileText)
            covered == { M[i].b : i \in 1..Len(M) }
        IN  (\A i \in 1..Len(M) : M[i].b <= MaxByte /\ M[i].cp <= MaxCodepoint) =>
                /\ MappingReturned <=> covered = Bytes
                /\ ~MappingReturned =>
                      /\ error.raised = "expected 256 mappings"
                      /\ error.value = <<>>
                      /\ Len(out_s) = Len(ENCODINGS) - 1
                      /\ output = <<>>

\* A file without a base line for 0x00 that maps 0x00 to U+FFFD explicitly is
\* complete and gives a table.
C4_Witness ==
    /\ JustBuilt
    /\ MappingTried
    /\ 0 \in mapfile[1].missing
    /\ mapfile[1].extras = <<6>>
    /\ tbl[1] = ReplacementChar

\* The hexadecimal number starting at position p of line, whatever its width, as
\* a reader of the file would take the field.
LooseField(line, p) ==
    LET n == Run(line, p + 2, HexChars)
    IN  IF Len(line) >= p + 2 /\ line[p] = "0" /\ line[p + 1] = "x" /\ n >= 1
        THEN int16(SubSeq(line, p + 2, p + 1 + n))
        ELSE -1

\* The byte field and the codepoint field of a line of the form
\* <spaces> 0x<hex> <spaces> 0x<hex>, and -1 for a field that is not there.
LooseFields(line) ==
    LET p0 == 1 + Run(line, 1, Whitespace)
        p1 == p0 + 2 + Run(line, p0 + 2, HexChars)
        p2 == p1 + Run(line, p1, Whitespace)
    IN  [b |-> LooseField(line, p0),
         cp |-> IF LooseField(line, p0) >= 0 /\ p2 > p1 THEN LooseField(line, p2) ELSE -1]

\* C5 as stated - out-of-range rejection: a mapping file with a line whose byte
\* field exceeds 0xFF, or whose codepoint field exceeds 0x10FFFF, fails
\* construction with a range error, whatever its other lines are.
C5_OutOfRangeRejected ==
    MappingTried =>
        \A i \in 1..Len(FileText) :
            LET f == LooseFields(FileText[i])
            IN  (f.b > MaxByte \/ (f.b >= 0 /\ f.cp > MaxCodepoint)) =>
                    /\ pc = "failed"
                    /\ error.raised \in {"byte out of range", "codepoint out of range"}

\* A Unicode scalar value: at most 0x10FFFF and no surrogate (0xD800..0xDFFF).
IsScalar(cp) == cp \in 0..MaxCodepoint /\ cp \notin 55296..57343

\* C6 as stated - table invariant: every table construction returns, before and
\* after the patch, has exactly 256 entries, each a Unicode scalar value.
C6_TableInvariant ==
    (JustBuilt \/ JustEmitted) =>
        /\ Len(tbl) = TableSize
        /\ \A i \in 1..Len(tbl) : IsScalar(tbl[i])

\* C7 - totality of codec-backed construction: for a codec-backed encoding
\* table_for never raises, records an entry for each of the 256 bytes, and
\* records U+FFFD for a byte the codec has no mapping for.
C7_CodecTotality ==
    /\ pc = "failed" => ENCODINGS[idx].py_codec = NoCodec
    /\ (JustBuilt /\ ENCODINGS[idx].py_codec # NoCodec) =>
          /\ DOMAIN tbl = 1..TableSize
          /\ \A b \in Bytes : tbl[b + 1] \in 0..MaxCodepoint /\ tbl[b + 1] # Undefined
          /\ \A b \in 128..MaxByte :
                decoding_table(ENCODINGS[idx].py_codec)[b - 127] = Undefined
                    => tbl[b + 1] = ReplacementChar

\* cp857 has no mapping for 0xD5, 0xE7 and 0xF2.
C7_Witness ==
    /\ JustBuilt
    /\ ENCODINGS[idx].cpp_name = "Cp857"
    /\ decoding_table(cp857)[213 - 127] = Undefined
    /\ tbl[213 + 1] = ReplacementChar

\* C9 - last-line-wins: when table_from_mapping_file returns, every entry is the
\* codepoint of the last line matching the pattern for that byte; earlier
\* lines for the byte and lines that do not match change nothing.
C9_LastLineWins ==
    (JustBuilt /\ MappingTried) =>
        LET M == MatchedFields(FileText)
        IN  /\ { M[i].b : i \in 1..Len(M) } = Bytes
            /\ LastLineWins(M, tbl)
            /\ Return(tbl) = table_from_mapping_file(
                   SelectSeq(FileText, LAMBDA line : MAP_LINE_RE_match(line).matched))

\* The house line follows the base line of 0x7F and decides the entry.
C9_Witness ==
    /\ JustBuilt
    /\ MappingTried
    /\ mapfile[1].extras = <<5>>
    /\ ~mapfile[1].front
    /\ tbl[HouseByte + 1] = House

\* ------------------------------------ ans_to_bxesc.py: the escaped bytes literal

\* if wrap < 16: raise ValueError
MinWrap == 16

\* Each byte is 4 characters, "\xHH".
TokenWidth == 4

\* "data = b''\n"
EmptyLiteral ==
    <<"d", "a", "t", "a", " ", "=", " ", "b", "'", "'", "\n">>

\* "data = ("
OpenLine ==
    <<"d", "a", "t", "a", " ", "=", " ", "(">>

\* "    b'" and "'" around a chunk
ChunkOpen ==
    <<" ", " ", " ", " ", "b", "'">>

ChunkClose ==
    <<"'">>

\* ")\n"
CloseLine ==
    <<")", "\n">>

\* f"\\x{b:02x}"
escape_token(b) ==
    <<"\\", "x", LowerHex[(b \div 16) + 1], LowerHex[(b % 16) + 1]>>

\* "".join(f"\\x{b:02x}" for b in data)
RECURSIVE hex_escape(_)
hex_escape(bs) ==
    IF bs = <<>> THEN <<>> ELSE escape_token(Head(bs)) \o hex_escape(Tail(bs))

\* Mutant of chunk_size: the lines are cut at wrap characters, aligned or not.
chunk_size_unaligned(w) ==
    IF w <= 0 THEN TokenWidth ELSE w

\* chunk_chars = (wrap // 4) * 4, and 4 when that is not positive
chunk_size(w) ==
    LET chunk_chars == (w \div TokenWidth) * TokenWidth
    IN  IF chunk_chars <= 0 THEN TokenWidth ELSE chunk_chars

\* [hex_esc[i : i + chunk_chars] for i in range(0, len(hex_esc), chunk_chars)]
RECURSIVE chunks_of(_, _)
chunks_of(s, n) ==
    IF s = <<>> THEN <<>>
    ELSE IF Len(s) <= n THEN <<s>>
    ELSE <<SubSeq(s, 1, n)>> \o chunks_of(SubSeq(s, n + 1, Len(s)), n)

\* "\n".join(lines)
RECURSIVE join_lines(_)
join_lines(lines) ==
    IF lines = <<>> THEN <<>>
    ELSE IF Len(lines) = 1 THEN lines[1]
    ELSE lines[1] \o <<"\n">> \o join_lines(Tail(lines))

bytes_to_wrapped_bx_literal(bs, w) ==
    IF w < MinWrap THEN Raise("--wrap must be >= 16", <<w>>)
    ELSE LET hex_esc == hex_escape(bs)
             chunks == chunks_of(hex_esc, chunk_size(w))
             out_lines ==
                 <<OpenLine>> \o
                 [i \in 1..Len(chunks) |-> ChunkOpen \o chunks[i] \o ChunkClose] \o
                 <<CloseLine>>
         IN  IF hex_esc = <<>> THEN Return(EmptyLiteral)
             ELSE Return(join_lines(out_lines))

\* The byte values the inputs are made of: 0x0a (a leading zero digit) and 0xab
\* (letters as digits).
DataBytes == {10, 171}

\* The wrap widths tried, below and from 16 on, multiples of 4 and not.
WrapValues == {8, 15, 16, 17, 19, 20, 23}

RECURSIVE SeqsUpTo(_, _)
SeqsUpTo(S, n) ==
    IF n = 0 THEN {<<>>}
    ELSE LET shorter == SeqsUpTo(S, n - 1)
         IN  shorter \cup { Append(s, e) : s \in shorter, e \in S }

litInit ==
    /\ lit_pc = "call"
    /\ data \in SeqsUpTo(DataBytes, MaxData)
    /\ wrap \in WrapValues
    /\ result = NoError

\* One call of bytes_to_wrapped_bx_literal(data, wrap).
CallLiteral ==
    /\ lit_pc = "call"
    /\ result' = bytes_to_wrapped_bx_literal(data, wrap)
    /\ lit_pc' = "returned"
    /\ UNCHANGED <<data, wrap>>
    /\ UNCHANGED <<gmVars, convVars>>

\* ------------------------------------------ ans_to_bxesc.py: files and options

\* A path: the directory tree it is under ("in": input_dir, "out": the
\* --output-dir), the subdirectory below it ("" for none), stem and suffix.
Path(root, sub, stem, suffix) ==
    [root |-> root, sub |-> sub, stem |-> stem, suffix |-> suffix]

\* The files input_dir may hold, in the order sorted() puts their paths:
\* "a.ANS" < "a.ans" < "sub/b.ans" (uppercase sorts first, "a..." before "sub").
InputCandidates ==
    << Path("in", "", "a", ".ANS"),
       Path("in", "", "a", ".ans"),
       Path("in", "sub", "b", ".ans") >>

\* The .txt files that may exist before the run.
OutputCandidates ==
    { Path("in", "", "a", ".txt"), Path("in", "sub", "b", ".txt"),
      Path("out", "", "a", ".txt"), Path("out", "sub", "b", ".txt") }

\* What an input file may hold.
InputContents == { <<>>, <<27, 91>> }

\* What a .txt file left by an earlier run holds.
OldText == <<"o", "l", "d">>

None == "None"

\* path.parent and its ancestors, as mkdir(parents=True) creates them.
parents(p) == { <<p.root, "">>, <<p.root, p.sub>> }

\* The directories a set of files implies, with input_dir itself.
dirs_of(files) == UNION { parents(p) : p \in files } \cup { <<"in", "">> }

\* Path.with_suffix
with_suffix(p, suffix) == [p EXCEPT !.suffix = suffix]

\* iter_ans_files: glob / rglob for "*.ans" and for "*.ANS" (case-sensitive).
iter_ans_files(filesystem, recursive) ==
    { p \in DOMAIN filesystem.files :
        /\ p.root = "in"
        /\ p.suffix \in {".ans", ".ANS"}
        /\ (recursive \/ p.sub = "") }

\* sorted(...) of a set of input paths.
sorted(S) ==
    SelectSeq(InputCandidates, LAMBDA p : p \in S)

resolve_output_path(input_file, o) ==
    IF o.output_dir = None
    THEN with_suffix(input_file, ".txt")
    ELSE with_suffix([input_file EXCEPT !.root = o.output_dir], ".txt")

\* Mutant of convert_one: an existing output is never a reason to skip.
convert_one_no_skip(input_file, o, filesystem) ==
    LET out_path == resolve_output_path(input_file, o)
        made == [filesystem EXCEPT !.dirs = @ \cup parents(out_path)]
        text == bytes_to_wrapped_bx_literal(filesystem.files[input_file], o.wrap)
    IN  IF o.dry_run
        THEN [raised |-> "", res |-> <<input_file, out_path>>, fs |-> filesystem]
        ELSE IF text.raised # ""
        THEN [raised |-> text.raised, res |-> <<>>, fs |-> made]
        ELSE [raised |-> "",
              res |-> <<input_file, out_path>>,
              fs |-> [made EXCEPT !.files =
                        [p \in DOMAIN @ \cup {out_path} |->
                            IF p = out_path THEN text.value ELSE @[p]]]]

\* convert_one: what it returns (res, None when skipped) or raises, and the file
\* system it leaves.
convert_one(input_file, o, filesystem) ==
    LET out_path == resolve_output_path(input_file, o)
        made == [filesystem EXCEPT !.dirs = @ \cup parents(out_path)]
        text == bytes_to_wrapped_bx_literal(filesystem.files[input_file], o.wrap)
    IN  IF out_path \in DOMAIN filesystem.files /\ ~o.overwrite
        THEN [raised |-> "", res |-> <<>>, fs |-> filesystem]
        ELSE IF o.dry_run
        THEN [raised |-> "", res |-> <<input_file, out_path>>, fs |-> filesystem]
        ELSE IF text.raised # ""
        THEN [raised |-> text.raised, res |-> <<>>, fs |-> made]
        ELSE [raised |-> "",
              res |-> <<input_file, out_path>>,
              fs |-> [made EXCEPT !.files =
                        [p \in DOMAIN @ \cup {out_path} |->
                            IF p = out_path THEN text.value ELSE @[p]]]]

convOff ==
    /\ cpc = "off"
    /\ opts = <<>>
    /\ fs = <<>>
    /\ ans_files = <<>>
    /\ pos = 1
    /\ converted = 0
    /\ skipped = 0
    /\ printed = <<>>

\* parse_args, and the file system the run starts on.
convInit ==
    /\ cpc = "start"
    /\ opts \in [output_dir : {None, "out"},
                 recursive : BOOLEAN,
                 overwrite : BOOLEAN,
                 wrap : {8, 16},
                 dry_run : BOOLEAN]
    /\ \E ins \in SUBSET { InputCandidates[i] : i \in 1..Len(InputCandidates) },
          outs \in SUBSET OutputCandidates :
          \E content \in [ins -> InputContents] :
             fs = [files |-> [p \in ins \cup outs |->
                                IF p \in ins THEN content[p] ELSE OldText],
                   dirs |-> dirs_of(ins \cup outs)]
    /\ ans_files = <<>>
    /\ pos = 1
    /\ converted = 0
    /\ skipped = 0
    /\ printed = <<>>

\* main, lines 133-140: list the inputs; with none, say so and return.
ListFiles ==
    /\ cpc = "start"
    /\ LET found == sorted(iter_ans_files(fs, opts.recursive))
       IN  /\ ans_files' = found
           /\ IF found = <<>>
              THEN /\ printed' = <<"No .ans files found.">>
                   /\ cpc' = "done"
              ELSE /\ printed' = printed
                   /\ cpc' = "loop"
    /\ UNCHANGED <<opts, fs, pos, converted, skipped>>
    /\ UNCHANGED <<gmVars, litVars>>

\* main, lines 142-149: one iteration of the loop over ans_files.
ConvertNext ==
    /\ cpc = "loop"
    /\ pos <= Len(ans_files)
    /\ LET r == convert_one(ans_files[pos], opts, fs)
       IN  /\ fs' = r.fs
           /\ IF r.raised # ""
              THEN /\ cpc' = "crashed"
                   /\ UNCHANGED <<pos, converted, skipped, printed>>
              ELSE /\ cpc' = cpc
                   /\ pos' = pos + 1
                   /\ IF r.res = <<>>
                      THEN /\ skipped' = skipped + 1
                           /\ UNCHANGED <<converted, printed>>
                      ELSE /\ converted' = converted + 1
                           /\ printed' = Append(printed, "->")
                           /\ skipped' = skipped
    /\ UNCHANGED <<opts, ans_files>>
    /\ UNCHANGED <<gmVars, litVars>>

\* main, lines 151-154: the summary.
Summary ==
    /\ cpc = "loop"
    /\ pos > Len(ans_files)
    /\ printed' = printed \o (IF skipped # 0 THEN <<"Skipped">> ELSE <<>>) \o <<"Converted">>
    /\ cpc' = "done"
    /\ UNCHANGED <<opts, fs, ans_files, pos, converted, skipped>>
    /\ UNCHANGED <<gmVars, litVars>>

\* --------------------------------------------------- ans_to_bxesc.py: claims

\* The positions of the newlines of text, in order.
NewlinesOf(text) ==
    SelectSeq([i \in 1..Len(text) |-> i], LAMBDA i : text[i] = "\n")

\* The lines of text, each ended by a newline.
LinesOf(text) ==
    LET nl == NewlinesOf(text)
    IN  [k \in 1..Len(nl) |->
            SubSeq(text, (IF k = 1 THEN 0 ELSE nl[k - 1]) + 1, nl[k] - 1)] \o <<>>

RECURSIVE Concat(_)
Concat(ss) == IF ss = <<>> THEN <<>> ELSE Head(ss) \o Concat(Tail(ss))

\* The digits of lowercase hexadecimal.
LowerDigits ==
    <<"0", "1", "2", "3", "4", "5", "6", "7", "8", "9", "a", "b", "c", "d", "e", "f">>

\* One token \xHH per byte of bs, in order: character j belongs to byte
\* (j - 1) div 4 and is the backslash, the x, the high or the low digit.
TokensOf(bs) ==
    [j \in 1..(4 * Len(bs)) |->
        LET b == bs[((j - 1) \div 4) + 1]
            r == (j - 1) % 4
        IN  CASE r = 0 -> "\\"
              [] r = 1 -> "x"
              [] r = 2 -> LowerDigits[(b \div 16) + 1]
              [] r = 3 -> LowerDigits[(b % 16) + 1]] \o <<>>

\* The chunk inside a line of the form <4 spaces>b'<chunk>', and <<"?">> for a
\* line of another form.
ChunkIn(line) ==
    IF /\ Len(line) >= 7
       /\ SubSeq(line, 1, 6) = <<" ", " ", " ", " ", "b", "'">>
       /\ line[Len(line)] = "'"
    THEN SubSeq(line, 7, Len(line) - 1)
    ELSE <<"?">>

\* C8 - converter chunking: a wrap below 16 is rejected; from 16 on, empty input
\* gives the single line data = b'' and other input gives, between "data = ("
\* and ")", one line per chunk, where the chunks are the \xHH tokens of the
\* bytes in order, cut every (wrap div 4) * 4 characters: every chunk a multiple
\* of 4 long, every chunk but the last of exactly that size.
C8_Chunking ==
    lit_pc = "returned" =>
        IF wrap < 16 THEN result.raised # "" /\ result.value = <<>>
        ELSE IF data = <<>>
        THEN /\ result.raised = ""
             /\ LinesOf(result.value) = << <<"d", "a", "t", "a", " ", "=", " ", "b", "'", "'">> >>
             /\ result.value[Len(result.value)] = "\n"
        ELSE LET text == result.value
                 lines == LinesOf(text)
                 n == Len(lines)
                 chunks == [k \in 1..(n - 2) |-> ChunkIn(lines[k + 1])] \o <<>>
                 size == (wrap \div 4) * 4
             IN  /\ result.raised = ""
                 /\ text[Len(text)] = "\n"
                 /\ n >= 3
                 /\ lines[1] = <<"d", "a", "t", "a", " ", "=", " ", "(">>
                 /\ lines[n] = <<")">>
                 /\ \A k \in 1..Len(chunks) :
                       /\ Len(chunks[k]) % 4 = 0
                       /\ Len(chunks[k]) > 0
                       /\ Len(chunks[k]) <= size
                       /\ k < Len(chunks) => Len(chunks[k]) = size
                 /\ Concat(chunks) = TokensOf(data)

\* Nine bytes at wrap 17: two full chunks of 16 characters and one of 4.
C8_Witness ==
    /\ lit_pc = "returned"
    /\ wrap = 17
    /\ Len(data) = 9
    /\ Len(NewlinesOf(result.value)) = 5
    /\ Len(LinesOf(result.value)[4]) = 11

\* Where the output of input file f goes: next to it, or at the same relative
\* path under the output directory, with the suffix .txt.
OutFor(f) ==
    Path(IF opts.output_dir = None THEN f.root ELSE opts.output_dir, f.sub, f.stem, ".txt")

\* What one call of convert_one from main's loop may do to the file system and
\* the counters: nothing to the file system when the output exists and overwrite
\* is off (the file is skipped) or when dry_run is set; no file disappears and an
\* existing file changes only with overwrite on and dry_run off.
ConvertFrame ==
    (cpc = "loop" /\ pos <= Len(ans_files)) =>
        LET out == OutFor(ans_files[pos])
        IN  /\ (out \in DOMAIN fs.files /\ ~opts.overwrite) =>
                  /\ fs' = fs
                  /\ skipped' = skipped + 1
                  /\ converted' = converted
            /\ opts.dry_run => fs' = fs
            /\ \A p \in DOMAIN fs.files :
                  /\ p \in DOMAIN fs'.files
                  /\ fs'.files[p] # fs.files[p] =>
                        /\ opts.overwrite
                        /\ ~opts.dry_run
                        /\ p = out

\* C10 as stated - over any run of main, convert_one leaves the file system
\* unchanged when the output exists and overwrite is off and when dry_run is set,
\* replaces an existing output only with overwrite on and dry_run off, and every
\* input file is counted exactly once, as converted or as skipped.
C10_WritesOnlyWhenAllowed_Original ==
    [][ /\ ConvertFrame
        /\ cpc' \in {"done", "crashed"} => converted' + skipped' = Len(ans_files')
      ]_vars

\* C10 amended - the same, except that the count covers every input file only in
\* a run main completes: with wrap < 16 and dry_run off, main is ended by the
\* --wrap error at the first file that is not skipped, which writes no file and
\* leaves that file and those after it uncounted; until then every file is
\* counted exactly once.
C10_WritesOnlyWhenAllowed ==
    [][ /\ ConvertFrame
        /\ cpc' = "done" => converted' + skipped' = Len(ans_files')
        /\ (cpc = "loop" /\ pos <= Len(ans_files) /\ cpc' # "crashed") =>
              /\ converted' + skipped' = converted + skipped + 1
              /\ converted' >= converted
              /\ skipped' >= skipped
              /\ pos' = pos + 1
        /\ cpc' = "crashed" =>
              /\ opts.wrap < 16
              /\ ~opts.dry_run
              /\ fs'.files = fs.files
              /\ converted' + skipped' = pos - 1
      ]_vars

\* A run that converted one file and skipped another whose output was there
\* before, with overwrite off: the old output is still in place.
C10_Witness ==
    /\ cpc = "done"
    /\ ~opts.overwrite
    /\ ~opts.dry_run
    /\ converted >= 1
    /\ skipped >= 1
    /\ \E p \in DOMAIN fs.files : fs.files[p] = OldText
    /\ \E p \in DOMAIN fs.files : p.suffix = ".txt" /\ fs.files[p] # OldText

\* ------------------------------------------------------------ specifications

\* generate-maps.py run on one of the mapping files.
Init == gmInit /\ litOff /\ convOff

Next == Build \/ PatchEmit \/ WriteOut

Spec == Init /\ [][Next]_vars

\* One call of bytes_to_wrapped_bx_literal.
LitInit == gmOff /\ litInit /\ convOff

LitNext == CallLiteral

SpecLit == LitInit /\ [][LitNext]_vars

\* ans_to_bxesc.py main.
ConvInit == gmOff /\ litOff /\ convInit

ConvNext == ListFiles \/ ConvertNext \/ Summary

SpecConv == ConvInit /\ [][ConvNext]_vars

====
